---- MODULE Spec2Model ----
(***************************************************************************)
(* Model of newt/cli/build_cmds.go: the build, clean, test, load, debug    *)
(* and size commands.  One behaviour is one process run of one command.    *)
(* Every call a command makes on a collaborator (project, resolver,        *)
(* builder, os) is appended to `trace`, a history of the run.              *)
(***************************************************************************)
EXTENDS Naturals, Sequences, FiniteSets, TLC

\* ---------------------------------------------------------------- bounds
MaxArgs == 3
NumNames == 2
MaxCalls == 5

\* ------------------------------------------------------------- constants
TARGET_KEYWORD_ALL == "all"
TEST_KEYWORD_ALL == "all"

\* Names a user may type besides the wildcard.
NamePool == <<"p1", "p2", "p3", "p4">>
Names == {NamePool[k] : k \in 1..NumNames}
ArgNames == Names \cup {"all"}

Commands == {"build", "clean", "test", "load", "debug", "size"}

VARIABLES
    cmd,          \* the command of this process run
    args,         \* its positional arguments
    targets,      \* names ResolveTarget finds in the project as first loaded
    pkgs,         \* names ResolvePackage finds in the project as first loaded
    testable,     \* packages whose BasePath()+"/src/test" exists
    pc,           \* position in the command function
    projState,    \* "Uninitialized" | "Initialized"
    gen,          \* number of project loads so far: the current generation
    idx,          \* index of the range loop in progress
    cleanAll,     \* cleanRunCmd: cleanAll
    testAll,      \* testRunCmd: testAll
    tlist,        \* cleanRunCmd: targets
    packs,        \* testRunCmd: packs
    t,            \* the local t (a Target object, NoTarget for nil)
    b,            \* the local b (a Builder object, NoBuilder when unset)
    pack,         \* testRunCmd: the loop variable pack
    err,          \* testRunCmd: the error b.Test returned
    passedPkgs,   \* testRunCmd: passedPkgs
    failedPkgs,   \* testRunCmd: failedPkgs
    nbuilders,    \* Builder objects constructed so far
    binRoot,      \* "present" | "removed": the directory builder.BinRoot()
    exit,         \* "running" | "ok" | "fatal" | "panic"
    reason,       \* the message of the fatal exit
    report,       \* what the test command reports at the end
    trace,        \* history of collaborator calls
    started,      \* UdpXport.started
    ulog          \* history of the calls made on the UdpXport

env == <<cmd, args, targets, pkgs, testable, started, ulog>>
locals == <<idx, cleanAll, testAll, tlist, packs, t, b, pack, err,
            passedPkgs, failedPkgs>>
vars == <<cmd, args, targets, pkgs, testable, pc, projState, gen, idx,
          cleanAll, testAll, tlist, packs, t, b, pack, err, passedPkgs,
          failedPkgs, nbuilders, binRoot, exit, reason, report, trace,
          started, ulog>>

\* const TARGET_TEST_NAME = "unittest"
TARGET_TEST_NAME_FromArgs == args[1]
TARGET_TEST_NAME == "unittest"

\* ------------------------------------------------------------- objects
\* A Target / Package is the name it was resolved from and the project
\* generation it was resolved under; a Builder also has an identity.
NoTarget == [name |-> "", gen |-> 0]
NoPack == [name |-> "", gen |-> 0]
NoBuilder == [id |-> 0, tname |-> "", gen |-> 0]
NoReport == [shown |-> FALSE, passed |-> <<>>, failed |-> <<>>, withFailed |-> FALSE]

\* One history entry: the call, the name it is about, the project state on
\* entry, the generation current when the call acts, whether it succeeded,
\* and the identities / generations of the objects handed to it.
Ev(op, name, cur, ok, bid, tgen, pgen, bgen) ==
    [op |-> op, name |-> name, st |-> projState, cur |-> cur, ok |-> ok,
     bid |-> bid, tgen |-> tgen, pgen |-> pgen, bgen |-> bgen]

SeqsUpTo(S, n) == UNION {[1..k -> S] : k \in 0..n}

\* ------------------------------------------------------- collaborators
\* The generation a lookup acts on.  After ResetProject the project is
\* loaded again by the first access to it, which makes a new generation.
LoadedGen == IF projState = "Initialized" THEN gen ELSE gen + 1

\* ResolveTarget(name): Target | nil, against the project as first loaded.
ResolveTarget(name) ==
    IF name \in targets THEN [name |-> name, gen |-> LoadedGen] ELSE NoTarget

\* ResolvePackage(name): (Package, error), against the project as first loaded.
ResolvePackageOk(name) == name \in pkgs

\* NewtUsage(cmd, err): report and exit the process with status 1.
NewtUsage(msg) ==
    /\ pc' = "done"
    /\ exit' = "fatal"
    /\ reason' = msg

\* ------------------------------------------------------------- Init
\* The locals of a command function before it runs, no project loaded.
CommandStart ==
    /\ pc = "start"
    /\ projState = "Uninitialized"
    /\ gen = 0
    /\ idx = 0
    /\ cleanAll = FALSE
    /\ testAll = FALSE
    /\ tlist = <<>>
    /\ packs = <<>>
    /\ t = NoTarget
    /\ b = NoBuilder
    /\ pack = NoPack
    /\ err = "nil"
    /\ passedPkgs = <<>>
    /\ failedPkgs = <<>>
    /\ nbuilders = 0
    /\ binRoot = "present"
    /\ exit = "running"
    /\ reason = ""
    /\ report = NoReport
    /\ trace = <<>>

\* func NewUdpXport() *UdpXport { return &UdpXport{} }
NewUdpXport ==
    /\ started = FALSE
    /\ ulog = <<>>

Init ==
    /\ cmd \in Commands
    /\ args \in SeqsUpTo(ArgNames, MaxArgs)
    /\ IF cmd = "test"
       THEN /\ targets = {}
            /\ pkgs \in SUBSET Names
            /\ testable \in SUBSET pkgs
       ELSE /\ targets \in SUBSET Names
            /\ pkgs = {}
            /\ testable = {}
    /\ CommandStart
    /\ NewUdpXport

\* ----------------------------------------------- steps every command has
\* if err := project.Initialize(); err != nil { NewtUsage(cmd, err) }
InitializeStep(next) ==
    /\ pc = "start"
    /\ \E ok \in BOOLEAN :
        /\ trace' = Append(trace, Ev("Initialize", "", gen + 1, ok, 0, 0, 0, 0))
        /\ IF ok
           THEN /\ projState' = "Initialized"
                /\ gen' = gen + 1
                /\ pc' = next
                /\ UNCHANGED <<exit, reason>>
           ELSE /\ NewtUsage("initialize error")
                /\ UNCHANGED <<projState, gen>>
    /\ UNCHANGED <<env, locals, nbuilders, binRoot, report>>

\* if len(args) < 1 { NewtUsage(cmd, ...) }
CheckArgsStep(next) ==
    /\ pc = "checkArgs"
    /\ IF Len(args) < 1
       THEN /\ NewtUsage("usage")
            /\ UNCHANGED idx
       ELSE /\ pc' = next
            /\ idx' = 1
            /\ UNCHANGED <<exit, reason>>
    /\ UNCHANGED <<env, cleanAll, testAll, tlist, packs, t, b, pack, err,
                   passedPkgs, failedPkgs, projState, gen, nbuilders, binRoot,
                   report, trace>>

ResolveFirstStep_LastArg ==
    /\ pc = "resolve"
    /\ LET r == ResolveTarget(args[Len(args)]) IN
        /\ trace' = Append(trace, Ev("ResolveTarget", args[Len(args)], LoadedGen,
                                     r # NoTarget, 0, r.gen, 0, 0))
        /\ t' = r
        /\ IF r = NoTarget
           THEN NewtUsage("invalid target name")
           ELSE /\ pc' = "newBuilder"
                /\ UNCHANGED <<exit, reason>>
    /\ UNCHANGED <<env, idx, cleanAll, testAll, tlist, packs, b, pack, err,
                   passedPkgs, failedPkgs, projState, gen, nbuilders, binRoot,
                   report>>

\* t := ResolveTarget(args[0]); if t == nil { NewtUsage(...) }
ResolveFirstStep ==
    /\ pc = "resolve"
    /\ LET r == ResolveTarget(args[1]) IN
        /\ trace' = Append(trace, Ev("ResolveTarget", args[1], LoadedGen,
                                     r # NoTarget, 0, r.gen, 0, 0))
        /\ t' = r
        /\ IF r = NoTarget
           THEN NewtUsage("invalid target name")
           ELSE /\ pc' = "newBuilder"
                /\ UNCHANGED <<exit, reason>>
    /\ UNCHANGED <<env, idx, cleanAll, testAll, tlist, packs, b, pack, err,
                   passedPkgs, failedPkgs, projState, gen, nbuilders, binRoot,
                   report>>

\* b, err := builder.NewBuilder(t); if err != nil { NewtUsage(...) }
NewBuilderStep(from, next) ==
    /\ pc = from
    /\ \E ok \in BOOLEAN :
        /\ trace' = Append(trace, Ev("NewBuilder", t.name, gen, ok,
                                     IF ok THEN nbuilders + 1 ELSE 0, t.gen, 0, 0))
        /\ IF ok
           THEN /\ b' = [id |-> nbuilders + 1, tname |-> t.name, gen |-> t.gen]
                /\ nbuilders' = nbuilders + 1
                /\ pc' = next
                /\ UNCHANGED <<exit, reason>>
           ELSE /\ NewtUsage("builder error")
                /\ UNCHANGED <<b, nbuilders>>
    /\ UNCHANGED <<env, idx, cleanAll, testAll, tlist, packs, t, pack, err,
                   passedPkgs, failedPkgs, projState, gen, binRoot, report>>

\* err = b.<method>(); if err != nil { NewtUsage(...) }
LifecycleStep(method) ==
    /\ pc = "lifecycle"
    /\ \E ok \in BOOLEAN :
        /\ trace' = Append(trace, Ev(method, b.tname, gen, ok, b.id, 0, 0, b.gen))
        /\ IF ok
           THEN /\ pc' = "done"
                /\ exit' = "ok"
                /\ UNCHANGED reason
           ELSE NewtUsage("action error")
    /\ UNCHANGED <<env, locals, projState, gen, nbuilders, binRoot, report>>

\* ------------------------------------------------ build, load, debug, size
buildRunCmd ==
    \/ cmd = "build" /\ InitializeStep("checkArgs")
    \/ cmd = "build" /\ CheckArgsStep("resolve")
    \/ cmd = "build" /\ ResolveFirstStep
    \/ cmd = "build" /\ NewBuilderStep("newBuilder", "lifecycle")
    \/ cmd = "build" /\ LifecycleStep("Build")

loadRunCmd ==
    \/ cmd = "load" /\ InitializeStep("checkArgs")
    \/ cmd = "load" /\ CheckArgsStep("resolve")
    \/ cmd = "load" /\ ResolveFirstStep
    \/ cmd = "load" /\ NewBuilderStep("newBuilder", "lifecycle")
    \/ cmd = "load" /\ LifecycleStep("Load")

debugRunCmd_CallsLoad ==
    \/ cmd = "debug" /\ InitializeStep("checkArgs")
    \/ cmd = "debug" /\ CheckArgsStep("resolve")
    \/ cmd = "debug" /\ ResolveFirstStep
    \/ cmd = "debug" /\ NewBuilderStep("newBuilder", "lifecycle")
    \/ cmd = "debug" /\ LifecycleStep("Load")

debugRunCmd ==
    \/ cmd = "debug" /\ InitializeStep("checkArgs")
    \/ cmd = "debug" /\ CheckArgsStep("resolve")
    \/ cmd = "debug" /\ ResolveFirstStep
    \/ cmd = "debug" /\ NewBuilderStep("newBuilder", "lifecycle")
    \/ cmd = "debug" /\ LifecycleStep("Debug")

sizeRunCmd ==
    \/ cmd = "size" /\ InitializeStep("checkArgs")
    \/ cmd = "size" /\ CheckArgsStep("resolve")
    \/ cmd = "size" /\ ResolveFirstStep
    \/ cmd = "size" /\ NewBuilderStep("newBuilder", "lifecycle")
    \/ cmd = "size" /\ LifecycleStep("Size")

\* ------------------------------------------------------------------ clean
cleanClassifyArg_SkipsInvalid ==
    /\ pc = "argLoop"
    /\ LET arg == args[idx]
           r == ResolveTarget(arg)
           more == IF idx < Len(args) THEN "argLoop" ELSE "branch"
       IN IF arg = TARGET_KEYWORD_ALL
          THEN /\ cleanAll' = TRUE
               /\ pc' = more
               /\ idx' = idx + 1
               /\ UNCHANGED <<tlist, t, exit, reason, trace>>
          ELSE /\ trace' = Append(trace, Ev("ResolveTarget", arg, LoadedGen,
                                            r # NoTarget, 0, r.gen, 0, 0))
               /\ t' = r
               /\ IF r = NoTarget
                  THEN /\ pc' = more
                       /\ idx' = idx + 1
                       /\ UNCHANGED <<tlist, exit, reason>>
                  ELSE /\ tlist' = Append(tlist, r)
                       /\ pc' = more
                       /\ idx' = idx + 1
                       /\ UNCHANGED <<exit, reason>>
               /\ UNCHANGED cleanAll
    /\ UNCHANGED <<env, testAll, packs, b, pack, err, passedPkgs, failedPkgs,
                   projState, gen, nbuilders, binRoot, report>>

\* for _, arg := range args { if arg == TARGET_KEYWORD_ALL {...} else {...} }
\* One iteration of the loop, for args[idx].
cleanClassifyArg ==
    /\ pc = "argLoop"
    /\ LET arg == args[idx]
           r == ResolveTarget(arg)
           more == IF idx < Len(args) THEN "argLoop" ELSE "branch"
       IN IF arg = TARGET_KEYWORD_ALL
          THEN /\ cleanAll' = TRUE
               /\ pc' = more
               /\ idx' = idx + 1
               /\ UNCHANGED <<tlist, t, exit, reason, trace>>
          ELSE /\ trace' = Append(trace, Ev("ResolveTarget", arg, LoadedGen,
                                            r # NoTarget, 0, r.gen, 0, 0))
               /\ t' = r
               /\ IF r = NoTarget
                  THEN /\ NewtUsage("invalid target name")
                       /\ UNCHANGED <<tlist, idx>>
                  ELSE /\ tlist' = Append(tlist, r)
                       /\ pc' = more
                       /\ idx' = idx + 1
                       /\ UNCHANGED <<exit, reason>>
               /\ UNCHANGED cleanAll
    /\ UNCHANGED <<env, testAll, packs, b, pack, err, passedPkgs, failedPkgs,
                   projState, gen, nbuilders, binRoot, report>>

CleanWholeRoot_OnlyAlone == cleanAll /\ Len(tlist) = 0

\* if cleanAll { ... } else { ... }: which branch line 88 takes.
CleanWholeRoot == cleanAll

\* path := builder.BinRoot(); err := os.RemoveAll(path)
cleanRemoveAll ==
    /\ pc = "branch"
    /\ CleanWholeRoot
    /\ \E ok \in BOOLEAN :
        /\ trace' = Append(trace, Ev("RemoveAll", "BinRoot", gen, ok, 0, 0, 0, 0))
        /\ IF ok
           THEN /\ binRoot' = "removed"
                /\ pc' = "done"
                /\ exit' = "ok"
                /\ UNCHANGED reason
           ELSE /\ binRoot' \in {"present", "partial"}
                /\ NewtUsage("remove error")
    /\ UNCHANGED <<env, locals, projState, gen, nbuilders, report>>

\* for _, t := range targets { ... }: entry of the loop over targets.
cleanRangeTargets ==
    /\ pc = "branch"
    /\ ~CleanWholeRoot
    /\ IF Len(tlist) = 0
       THEN /\ pc' = "done"
            /\ exit' = "ok"
            /\ UNCHANGED <<idx, t>>
       ELSE /\ pc' = "cleanNewBuilder"
            /\ idx' = 1
            /\ t' = tlist[1]
            /\ UNCHANGED exit
    /\ UNCHANGED <<env, cleanAll, testAll, tlist, packs, b, pack, err,
                   passedPkgs, failedPkgs, projState, gen, nbuilders, binRoot,
                   reason, report, trace>>

cleanClean_KeepsBuilder ==
    /\ pc = "cleanClean"
    /\ \E ok \in BOOLEAN :
        /\ trace' = Append(trace, Ev("Clean", b.tname, gen, ok, b.id, 0, 0, b.gen))
        /\ IF ~ok
           THEN /\ NewtUsage("action error")
                /\ UNCHANGED <<idx, t>>
           ELSE IF idx < Len(tlist)
                THEN /\ idx' = idx + 1
                     /\ t' = tlist[idx + 1]
                     /\ pc' = "cleanClean"
                     /\ UNCHANGED <<exit, reason>>
                ELSE /\ pc' = "done"
                     /\ exit' = "ok"
                     /\ UNCHANGED <<idx, t, reason>>
    /\ UNCHANGED <<env, cleanAll, testAll, tlist, packs, b, pack, err,
                   passedPkgs, failedPkgs, projState, gen, nbuilders, binRoot,
                   report>>

\* err = b.Clean(); if err != nil { NewtUsage(cmd, err) }; next target.
cleanClean ==
    /\ pc = "cleanClean"
    /\ \E ok \in BOOLEAN :
        /\ trace' = Append(trace, Ev("Clean", b.tname, gen, ok, b.id, 0, 0, b.gen))
        /\ IF ~ok
           THEN /\ NewtUsage("action error")
                /\ UNCHANGED <<idx, t>>
           ELSE IF idx < Len(tlist)
                THEN /\ idx' = idx + 1
                     /\ t' = tlist[idx + 1]
                     /\ pc' = "cleanNewBuilder"
                     /\ UNCHANGED <<exit, reason>>
                ELSE /\ pc' = "done"
                     /\ exit' = "ok"
                     /\ UNCHANGED <<idx, t, reason>>
    /\ UNCHANGED <<env, cleanAll, testAll, tlist, packs, b, pack, err,
                   passedPkgs, failedPkgs, projState, gen, nbuilders, binRoot,
                   report>>

cleanRunCmd ==
    \/ cmd = "clean" /\ InitializeStep("checkArgs")
    \/ cmd = "clean" /\ CheckArgsStep("argLoop")
    \/ cmd = "clean" /\ cleanClassifyArg
    \/ cmd = "clean" /\ cleanRemoveAll
    \/ cmd = "clean" /\ cleanRangeTargets
    \/ cmd = "clean" /\ NewBuilderStep("cleanNewBuilder", "cleanClean")
    \/ cmd = "clean" /\ cleanClean

\* ------------------------------------------------------------------- test
pkgIsTestable_Always(name) == name \in pkgs

\* func pkgIsTestable(pack): util.NodeExist(pack.BasePath() + "/src/test")
pkgIsTestable(name) == name \in testable

\* Every order in which a range over the package maps can visit the set S.
Orders(S) ==
    {s \in [1..Cardinality(S) -> S] : \A i, j \in DOMAIN s : i # j => s[i] # s[j]}

\* PackageNameList(packs): the names of the packages, in list order.
PackageNameList(ps) == [i \in DOMAIN ps |-> ps[i].name]

testClassifyArg_SkipUnresolved ==
    /\ pc = "argLoop"
    /\ LET pkgName == args[idx]
           ok == ResolvePackageOk(pkgName)
           more == IF idx < Len(args) THEN "argLoop" ELSE "select"
       IN IF pkgName = TEST_KEYWORD_ALL
          THEN /\ testAll' = TRUE
               /\ pc' = more
               /\ idx' = idx + 1
               /\ UNCHANGED <<packs, exit, reason, trace>>
          ELSE /\ trace' = Append(trace, Ev("ResolvePackage", pkgName, LoadedGen,
                                            ok, 0, 0, IF ok THEN LoadedGen ELSE 0, 0))
               /\ IF ~ok
                  THEN /\ pc' = more
                       /\ idx' = idx + 1
                       /\ UNCHANGED <<packs, exit, reason>>
                  ELSE /\ packs' = Append(packs, [name |-> pkgName, gen |-> LoadedGen])
                       /\ pc' = more
                       /\ idx' = idx + 1
                       /\ UNCHANGED <<exit, reason>>
               /\ UNCHANGED testAll
    /\ UNCHANGED <<env, cleanAll, tlist, t, b, pack, err, passedPkgs, failedPkgs,
                   projState, gen, nbuilders, binRoot, report>>

\* for _, pkgName := range args { if pkgName == "all" {...} else {...} }
\* One iteration of the loop, for args[idx].
testClassifyArg ==
    /\ pc = "argLoop"
    /\ LET pkgName == args[idx]
           ok == ResolvePackageOk(pkgName)
           more == IF idx < Len(args) THEN "argLoop" ELSE "select"
       IN IF pkgName = TEST_KEYWORD_ALL
          THEN /\ testAll' = TRUE
               /\ pc' = more
               /\ idx' = idx + 1
               /\ UNCHANGED <<packs, exit, reason, trace>>
          ELSE /\ trace' = Append(trace, Ev("ResolvePackage", pkgName, LoadedGen,
                                            ok, 0, 0, IF ok THEN LoadedGen ELSE 0, 0))
               /\ IF ~ok
                  THEN /\ NewtUsage("resolve error")
                       /\ UNCHANGED <<packs, idx>>
                  ELSE /\ packs' = Append(packs, [name |-> pkgName, gen |-> LoadedGen])
                       /\ pc' = more
                       /\ idx' = idx + 1
                       /\ UNCHANGED <<exit, reason>>
               /\ UNCHANGED testAll
    /\ UNCHANGED <<env, cleanAll, tlist, t, b, pack, err, passedPkgs, failedPkgs,
                   projState, gen, nbuilders, binRoot, report>>

SelectionEmpty_Never(ps) == Len(ps) < 0

\* if len(packs) == 0 { NewtUsage(...) }
SelectionEmpty(ps) == Len(ps) = 0

\* if testAll { packs = every testable package of every repository }
\* if len(packs) == 0 { NewtUsage(nil, "No testable packages found") }
testSelect ==
    /\ pc = "select"
    /\ \E order \in Orders({p \in pkgs : pkgIsTestable(p)}) :
        LET sel == IF testAll
                   THEN [i \in DOMAIN order |-> [name |-> order[i], gen |-> gen]]
                   ELSE packs
        IN /\ packs' = sel
           /\ trace' = IF testAll
                       THEN Append(trace, Ev("PackageList", "", gen, TRUE, 0, 0, 0, 0))
                       ELSE trace
           /\ IF SelectionEmpty(sel)
              THEN /\ NewtUsage("No testable packages found")
                   /\ UNCHANGED idx
              ELSE /\ pc' = "loopHead"
                   /\ idx' = 1
                   /\ UNCHANGED <<exit, reason>>
    /\ UNCHANGED <<env, cleanAll, testAll, tlist, t, b, pack, err, passedPkgs,
                   failedPkgs, projState, gen, nbuilders, binRoot, report>>

testResetProject_NoReset ==
    /\ pc = "loopHead"
    /\ pack' = packs[idx]
    /\ trace' = Append(trace, Ev("Reset", packs[idx].name, gen, TRUE, 0, 0, 0, 0))
    /\ pc' = "resolveTest"
    /\ UNCHANGED <<env, idx, cleanAll, testAll, tlist, packs, t, b, err,
                   passedPkgs, failedPkgs, projState, gen, nbuilders, binRoot,
                   exit, reason, report>>

\* for _, pack := range packs { project.ResetProject() ...
testResetProject ==
    /\ pc = "loopHead"
    /\ pack' = packs[idx]
    /\ projState' = "Uninitialized"
    /\ trace' = Append(trace, Ev("Reset", packs[idx].name, gen, TRUE, 0, 0, 0, 0))
    /\ pc' = "resolveTest"
    /\ UNCHANGED <<env, idx, cleanAll, testAll, tlist, packs, t, b, err,
                   passedPkgs, failedPkgs, gen, nbuilders, binRoot, exit, reason,
                   report>>

\* t := ResolveTarget(TARGET_TEST_NAME); if t == nil { NewtUsage(...) }
\* The project loaded for this lookup is read again from disk and need not
\* hold what the first load held.
testResolveTarget ==
    /\ pc = "resolveTest"
    /\ \E found \in BOOLEAN :
        LET r == IF found THEN [name |-> TARGET_TEST_NAME, gen |-> LoadedGen]
                 ELSE NoTarget
        IN /\ trace' = Append(trace, Ev("ResolveTarget", TARGET_TEST_NAME,
                                        LoadedGen, found, 0, r.gen, 0, 0))
           /\ t' = r
           /\ IF found
              THEN /\ pc' = "testNewBuilder"
                   /\ UNCHANGED <<exit, reason>>
              ELSE NewtUsage("Can't find unit test target")
    /\ projState' = "Initialized"
    /\ gen' = LoadedGen
    /\ UNCHANGED <<env, idx, cleanAll, testAll, tlist, packs, b, pack, err,
                   passedPkgs, failedPkgs, nbuilders, binRoot, report>>

testReResolve_GoesOn ==
    /\ pc = "reResolve"
    /\ \E ok \in BOOLEAN :
        LET fullName == Ev("FullName", pack.name, LoadedGen, TRUE, 0, 0, pack.gen, 0)
            resolve == Ev("ResolvePackage", pack.name, LoadedGen, ok, 0, 0,
                          IF ok THEN LoadedGen ELSE 0, 0)
            name == Ev("Name", pack.name, LoadedGen, TRUE, 0, 0, pack.gen, 0)
        IN IF ok
           THEN /\ trace' = trace \o <<fullName, fullName, resolve>>
                /\ pack' = [name |-> pack.name, gen |-> LoadedGen]
                /\ pc' = "test"
                /\ UNCHANGED <<exit, reason>>
           ELSE /\ trace' = trace \o <<fullName, fullName, resolve, name>>
                /\ pc' = "test"
                /\ UNCHANGED <<pack, exit, reason>>
    /\ projState' = "Initialized"
    /\ gen' = LoadedGen
    /\ UNCHANGED <<env, idx, cleanAll, testAll, tlist, packs, t, b, err,
                   passedPkgs, failedPkgs, nbuilders, binRoot, report>>

\* util.StatusMessage(..., pack.FullName())
\* newPack, err := ResolvePackage(pack.FullName())
\* if err != nil { NewtUsage(nil, "Failed to resolve package: "+pack.Name()) }
\* pack = newPack
testReResolve ==
    /\ pc = "reResolve"
    /\ \E ok \in BOOLEAN :
        LET fullName == Ev("FullName", pack.name, LoadedGen, TRUE, 0, 0, pack.gen, 0)
            resolve == Ev("ResolvePackage", pack.name, LoadedGen, ok, 0, 0,
                          IF ok THEN LoadedGen ELSE 0, 0)
            name == Ev("Name", pack.name, LoadedGen, TRUE, 0, 0, pack.gen, 0)
        IN IF ok
           THEN /\ trace' = trace \o <<fullName, fullName, resolve>>
                /\ pack' = [name |-> pack.name, gen |-> LoadedGen]
                /\ pc' = "test"
                /\ UNCHANGED <<exit, reason>>
           ELSE /\ trace' = trace \o <<fullName, fullName, resolve, name>>
                /\ NewtUsage("Failed to resolve package")
                /\ UNCHANGED pack
    /\ projState' = "Initialized"
    /\ gen' = LoadedGen
    /\ UNCHANGED <<env, idx, cleanAll, testAll, tlist, packs, t, b, err,
                   passedPkgs, failedPkgs, nbuilders, binRoot, report>>

\* err = b.Test(pack): nil, a *util.NewtError, or an error of another type.
TestResults == {"nil", "NewtError", "error"}

testTest ==
    /\ pc = "test"
    /\ \E r \in TestResults :
        /\ err' = r
        /\ trace' = Append(trace, Ev("Test", pack.name, gen, r = "nil", b.id,
                                     t.gen, pack.gen, b.gen))
    /\ pc' = "classify"
    /\ UNCHANGED <<env, idx, cleanAll, testAll, tlist, packs, t, b, pack,
                   passedPkgs, failedPkgs, projState, gen, nbuilders, binRoot,
                   exit, reason, report>>

testClassify_FailedNewestFirst ==
    /\ pc = "classify"
    /\ IF err = "error"
       THEN \* the type assertion panics
            /\ pc' = "done"
            /\ exit' = "panic"
            /\ reason' = "interface conversion"
            /\ UNCHANGED <<passedPkgs, failedPkgs, idx>>
       ELSE /\ IF err = "nil"
               THEN /\ passedPkgs' = Append(passedPkgs, pack)
                    /\ UNCHANGED failedPkgs
               ELSE /\ failedPkgs' = <<pack>> \o failedPkgs
                    /\ UNCHANGED passedPkgs
            /\ IF idx < Len(packs)
               THEN /\ idx' = idx + 1
                    /\ pc' = "loopHead"
               ELSE /\ pc' = "aggregate"
                    /\ UNCHANGED idx
            /\ UNCHANGED <<exit, reason>>
    /\ UNCHANGED <<env, cleanAll, testAll, tlist, packs, t, b, pack, err,
                   projState, gen, nbuilders, binRoot, report, trace>>

testClassify_StopsOneEarly ==
    /\ pc = "classify"
    /\ IF err = "error"
       THEN \* the type assertion panics
            /\ pc' = "done"
            /\ exit' = "panic"
            /\ reason' = "interface conversion"
            /\ UNCHANGED <<passedPkgs, failedPkgs, idx>>
       ELSE /\ IF err = "nil"
               THEN /\ passedPkgs' = Append(passedPkgs, pack)
                    /\ UNCHANGED failedPkgs
               ELSE /\ failedPkgs' = Append(failedPkgs, pack)
                    /\ UNCHANGED passedPkgs
            /\ IF idx + 1 < Len(packs)
               THEN /\ idx' = idx + 1
                    /\ pc' = "loopHead"
               ELSE /\ pc' = "aggregate"
                    /\ UNCHANGED idx
            /\ UNCHANGED <<exit, reason>>
    /\ UNCHANGED <<env, cleanAll, testAll, tlist, packs, t, b, pack, err,
                   projState, gen, nbuilders, binRoot, report, trace>>

\* if err == nil { passedPkgs = append(passedPkgs, pack) }
\* else { newtError := err.(*util.NewtError); ...; failedPkgs = append(failedPkgs, pack) }
\* and the step of the range loop.
testClassify ==
    /\ pc = "classify"
    /\ IF err = "error"
       THEN \* the type assertion panics
            /\ pc' = "done"
            /\ exit' = "panic"
            /\ reason' = "interface conversion"
            /\ UNCHANGED <<passedPkgs, failedPkgs, idx>>
       ELSE /\ IF err = "nil"
               THEN /\ passedPkgs' = Append(passedPkgs, pack)
                    /\ UNCHANGED failedPkgs
               ELSE /\ failedPkgs' = Append(failedPkgs, pack)
                    /\ UNCHANGED passedPkgs
            /\ IF idx < Len(packs)
               THEN /\ idx' = idx + 1
                    /\ pc' = "loopHead"
               ELSE /\ pc' = "aggregate"
                    /\ UNCHANGED idx
            /\ UNCHANGED <<exit, reason>>
    /\ UNCHANGED <<env, cleanAll, testAll, tlist, packs, t, b, pack, err,
                   projState, gen, nbuilders, binRoot, report, trace>>

BatchFailed_MoreThanOne(failed) == Len(failed) > 1

\* if len(failedPkgs) > 0
BatchFailed(failed) == Len(failed) > 0

\* passStr, failStr; if len(failedPkgs) > 0 { NewtUsage("Test failure(s):
\* passStr failStr") } else { print passStr; print "All tests passed" }
testAggregate ==
    /\ pc = "aggregate"
    /\ LET passStr == PackageNameList(passedPkgs)
           failStr == PackageNameList(failedPkgs)
       IN IF BatchFailed(failedPkgs)
          THEN /\ report' = [shown |-> TRUE, passed |-> passStr,
                             failed |-> failStr, withFailed |-> TRUE]
               /\ NewtUsage("Test failure(s)")
          ELSE /\ report' = [shown |-> TRUE, passed |-> passStr,
                             failed |-> <<>>, withFailed |-> FALSE]
               /\ pc' = "done"
               /\ exit' = "ok"
               /\ UNCHANGED reason
    /\ UNCHANGED <<env, locals, projState, gen, nbuilders, binRoot, trace>>

testRunCmd ==
    \/ cmd = "test" /\ InitializeStep("checkArgs")
    \/ cmd = "test" /\ CheckArgsStep("argLoop")
    \/ cmd = "test" /\ testClassifyArg
    \/ cmd = "test" /\ testSelect
    \/ cmd = "test" /\ testResetProject
    \/ cmd = "test" /\ testResolveTarget
    \/ cmd = "test" /\ NewBuilderStep("testNewBuilder", "reResolve")
    \/ cmd = "test" /\ testReResolve
    \/ cmd = "test" /\ testTest
    \/ cmd = "test" /\ testClassify
    \/ cmd = "test" /\ testAggregate

\* ------------------------------------------------------ reading the trace
Range(s) == {s[i] : i \in DOMAIN s}
Called(ops) == {k \in DOMAIN trace : trace[k].op \in ops}
Succeeded(op) == \E k \in Called({op}) : trace[k].ok
ExplicitArgs(keyword) == Range(args) \ {keyword}
IsTestEv(e) == e.op = "Test"
IsPassEv(e) == e.op = "Test" /\ e.ok
IsFailEv(e) == e.op = "Test" /\ ~e.ok
TestEvs == SelectSeq(trace, IsTestEv)
EvNames(evs) == [i \in DOMAIN evs |-> evs[i].name]

\* ------------------------------------------------------------------ C1
\* C1: a test run that reaches aggregation with N selected packages of
\* which K had a failing Test has N-K passed entries and K failed entries;
\* it exits non-zero iff K > 0, and the report names every passed package
\* and (when there is a failure) every failed package.
C1_BatchAggregation ==
    (cmd = "test" /\ (pc = "aggregate" \/ report.shown)) =>
        LET N == Len(packs)
            K == Len(SelectSeq(trace, IsFailEv))
        IN /\ K <= N
           /\ Len(passedPkgs) = N - K
           /\ Len(failedPkgs) = K
           /\ report.shown =>
                /\ pc = "done"
                /\ (exit = "fatal") <=> (K > 0)
                /\ (exit = "ok") <=> (K = 0)
                /\ report.passed = EvNames(SelectSeq(trace, IsPassEv))
                /\ report.withFailed <=> (K > 0)
                /\ report.failed = EvNames(SelectSeq(trace, IsFailEv))

C1_Witness ==
    /\ cmd = "test"
    /\ report.shown
    /\ Len(packs) = 3
    /\ Len(failedPkgs) = 1
    /\ Len(report.passed) = 2
    /\ exit = "fatal"

\* ------------------------------------------------------------------ C2
\* C2: whenever Builder.Test returns an error, of whatever type, the
\* failure is recorded in the failed list and the run does not abort.
C2_FailureNeverAborts ==
    (cmd = "test" /\ pc # "classify") =>
        /\ exit # "panic"
        /\ Len(SelectSeq(trace, IsFailEv)) = Len(failedPkgs)

\* ------------------------------------------------------------------ C3
SelectionDone ==
    /\ cmd = "test"
    /\ pc \notin {"start", "checkArgs", "argLoop", "select"}
    /\ Succeeded("Initialize")
    /\ Len(args) >= 1
    /\ ExplicitArgs(TEST_KEYWORD_ALL) \subseteq pkgs

\* C3 as stated: with "all" among the arguments the selection is exactly
\* the testable packages, whatever the other arguments are.
C3_AllSelectsTestable_AnyNames ==
    (/\ cmd = "test"
     /\ TEST_KEYWORD_ALL \in Range(args)
     /\ Succeeded("Initialize")
     /\ pc = "done")
    => /\ Called({"PackageList"}) # {}
       /\ Range(EvNames(packs)) = testable

\* C3 amended: with "all" among the arguments and every other argument
\* resolving, the selection holds each testable package exactly once and
\* nothing else; if another argument does not resolve, the run ends with
\* the resolution error and no selection is made.
C3_AllSelectsTestable ==
    (cmd = "test" /\ TEST_KEYWORD_ALL \in Range(args) /\ Succeeded("Initialize")) =>
        /\ SelectionDone =>
             /\ Range(EvNames(packs)) = testable
             /\ Len(packs) = Cardinality(testable)
             /\ Cardinality(Called({"PackageList"})) = 1
        /\ (pc = "done" /\ ~(ExplicitArgs(TEST_KEYWORD_ALL) \subseteq pkgs)) =>
             /\ exit = "fatal"
             /\ reason = "resolve error"
             /\ Called({"PackageList"}) = {}

C3_Witness ==
    /\ SelectionDone
    /\ testAll
    /\ pc = "loopHead"
    /\ ExplicitArgs(TEST_KEYWORD_ALL) # {}
    /\ ~(ExplicitArgs(TEST_KEYWORD_ALL) \subseteq testable)
    /\ testable # {}
    /\ Range(EvNames(packs)) = testable

\* ------------------------------------------------------------------ C4
\* C4: when an explicitly named package does not resolve, the test command
\* ends in a fatal resolution failure and has performed no Reset, no
\* Builder construction, no Test and recorded no outcome.
C4_UnresolvedNameNoCycle ==
    (cmd = "test" /\ ~(ExplicitArgs(TEST_KEYWORD_ALL) \subseteq pkgs)) =>
        /\ Called({"Reset", "ResolveTarget", "NewBuilder", "Test"}) = {}
        /\ passedPkgs = <<>> /\ failedPkgs = <<>>
        /\ ~report.shown
        /\ pc \notin {"select", "loopHead", "aggregate"}
        /\ pc = "done" =>
             /\ exit = "fatal"
             /\ reason = IF Succeeded("Initialize")
                         THEN "resolve error" ELSE "initialize error"

C4_Witness ==
    /\ cmd = "test"
    /\ pc = "done"
    /\ reason = "resolve error"
    /\ Len(args) >= 2
    /\ args[1] \in pkgs
    /\ Len(packs) >= 1

\* ------------------------------------------------------------------ C5
\* C5 as stated: with "all" among the arguments of clean the output root
\* is removed, whatever the other arguments are, and Clean is never called.
C5_CleanAllRemovesRoot_AnyNames ==
    (/\ cmd = "clean"
     /\ TARGET_KEYWORD_ALL \in Range(args)
     /\ Succeeded("Initialize")
     /\ \A k \in Called({"RemoveAll"}) : trace[k].ok
     /\ pc = "done")
    => /\ binRoot = "removed"
       /\ Called({"NewBuilder", "Clean"}) = {}

\* C5 amended: with "all" among the arguments of clean, no Builder is
\* constructed and Clean is never called; when every other argument
\* resolves to a target, RemoveAll runs once on the output root, which is
\* removed unless RemoveAll itself fails; when another argument does not
\* resolve, the run ends with "invalid target name" and the root untouched.
C5_CleanAllRemovesRoot ==
    (cmd = "clean" /\ TARGET_KEYWORD_ALL \in Range(args)) =>
        /\ Called({"NewBuilder", "Clean"}) = {}
        /\ (pc = "done" /\ Succeeded("Initialize")) =>
             IF ExplicitArgs(TARGET_KEYWORD_ALL) \subseteq targets
             THEN /\ Cardinality(Called({"RemoveAll"})) = 1
                  /\ Succeeded("RemoveAll") => (binRoot = "removed" /\ exit = "ok")
                  /\ ~Succeeded("RemoveAll") => exit = "fatal"
             ELSE /\ Called({"RemoveAll"}) = {}
                  /\ binRoot = "present"
                  /\ exit = "fatal"
                  /\ reason = "invalid target name"

C5_Witness ==
    /\ cmd = "clean"
    /\ pc = "done"
    /\ binRoot = "removed"
    /\ Len(tlist) >= 1
    /\ args[1] # TARGET_KEYWORD_ALL

\* ------------------------------------------------------------------ C6
\* C6: every ResolveTarget, ResolvePackage and NewBuilder call is made
\* while the project is Initialized, and the call that follows a Reset is
\* an Initialize.
C6_ResolveOnlyWhileInitialized ==
    /\ \A k \in Called({"ResolveTarget", "ResolvePackage", "NewBuilder"}) :
          trace[k].st = "Initialized"
    /\ \A k \in Called({"Reset"}) :
          k < Len(trace) => trace[k + 1].op = "Initialize"

\* ------------------------------------------------------------------ C7
\* C7: no call is made on, or handed, a Target, Package or Builder of a
\* generation other than the current one.
C7_NoStaleObjectUse ==
    \A k \in DOMAIN trace :
        /\ trace[k].tgen \in {0, trace[k].cur}
        /\ trace[k].pgen \in {0, trace[k].cur}
        /\ trace[k].bgen \in {0, trace[k].cur}

\* ------------------------------------------------------------------ C8
CycleOf(k) == Cardinality({x \in Called({"Test"}) : x <= k})
ResetsBefore(k) == Cardinality({x \in Called({"Reset"}) : x < k})
BuildersBefore(k) == Cardinality({x \in Called({"NewBuilder"}) : x < k /\ trace[x].ok})
OutcomesRecorded == Len(passedPkgs) + Len(failedPkgs)

\* C8: explicit names are selected once per occurrence, and two cycles of
\* the same package name each have their own Reset, their own Builder and
\* their own re-resolved Package, run under different project generations,
\* and each records the outcome of its own Test.
C8_DuplicateRunsIsolated ==
    (cmd = "test") =>
        /\ (SelectionDone /\ ~testAll) => EvNames(packs) = args
        /\ pc = "aggregate" => Len(TestEvs) = Len(packs)
        /\ \A k1, k2 \in Called({"Test"}) :
             (k1 < k2 /\ trace[k1].name = trace[k2].name) =>
                /\ trace[k1].cur # trace[k2].cur
                /\ trace[k1].bid # trace[k2].bid
                /\ \A k \in {k1, k2} :
                     LET e == trace[k]
                         obj == [name |-> e.name, gen |-> e.cur]
                     IN /\ e.name = packs[CycleOf(k)].name
                        /\ ResetsBefore(k) = CycleOf(k)
                        /\ BuildersBefore(k) = CycleOf(k)
                        /\ e.bid = CycleOf(k)
                        /\ e.pgen = e.cur /\ e.bgen = e.cur /\ e.tgen = e.cur
                        /\ OutcomesRecorded >= CycleOf(k) =>
                             /\ (obj \in Range(passedPkgs)) <=> e.ok
                             /\ (obj \in Range(failedPkgs)) <=> ~e.ok

C8_Witness ==
    /\ cmd = "test"
    /\ report.shown
    /\ Len(packs) >= 2
    /\ packs[1].name = packs[2].name
    /\ Len(passedPkgs) >= 1
    /\ Len(failedPkgs) >= 1
    /\ passedPkgs[1].name = failedPkgs[1].name

\* ------------------------------------------------------------------ C9
LifecycleOps == {"Build", "Clean", "Test", "Load", "Debug", "Size"}
MethodOf(c) ==
    CASE c = "build" -> "Build" [] c = "load" -> "Load"
      [] c = "debug" -> "Debug" [] c = "size" -> "Size"
      [] OTHER -> "none"

\* C9: build, load, debug and size call their own lifecycle method, once,
\* on a Builder made for the target args[0] names, exactly when Initialize
\* succeeded, an argument was given, it resolved and NewBuilder succeeded;
\* otherwise the run is fatal and no lifecycle method is called.
C9_OneLifecycleCall ==
    (cmd \in {"build", "load", "debug", "size"}) =>
        LET life == Called(LifecycleOps)
            ran == /\ Succeeded("Initialize")
                   /\ Len(args) >= 1
                   /\ args[1] \in targets
                   /\ Succeeded("NewBuilder")
        IN /\ Cardinality(life) <= 1
           /\ \A k \in life :
                /\ trace[k].op = MethodOf(cmd)
                /\ ran
                /\ trace[k].name = args[1]
                /\ \E n \in Called({"NewBuilder"}) :
                     /\ n < k
                     /\ trace[n].ok
                     /\ trace[n].bid = trace[k].bid
                     /\ trace[n].name = args[1]
           /\ pc = "done" =>
                /\ ran <=> (Cardinality(life) = 1)
                /\ ~ran => exit = "fatal"
                /\ exit = "ok" => \A k \in life : trace[k].ok

C9_Witness ==
    /\ cmd = "debug"
    /\ pc = "done"
    /\ exit = "ok"
    /\ Len(args) >= 2
    /\ \E k \in Called({"Debug"}) : trace[k].name = args[1]

\* ----------------------------------------------------------------- C10
\* C10: when the selection of the test command is empty the run ends with
\* "No testable packages found" and has made no Reset, no target
\* resolution, no Builder and no Test; that message is given for no
\* other reason.
C10_EmptySelectionIsFatal ==
    (cmd = "test") =>
        /\ (SelectionDone /\ Len(packs) = 0) =>
             /\ pc = "done"
             /\ exit = "fatal"
             /\ reason = "No testable packages found"
             /\ Called({"Reset", "ResolveTarget", "NewBuilder", "Test"}) = {}
             /\ ~report.shown
        /\ reason = "No testable packages found" =>
             (SelectionDone /\ Len(packs) = 0 /\ testAll /\ testable = {})

C10_Witness ==
    /\ cmd = "test"
    /\ reason = "No testable packages found"
    /\ pkgs # {}
    /\ Len(args) >= 2

\* ----------------------------------------------------------------- C11
\* The cycles whose outcome is recorded, in selection order: the name
\* selected and whether its Test passed.
RecordedCycles ==
    [i \in 1..OutcomesRecorded |-> [name |-> packs[i].name, ok |-> TestEvs[i].ok]]
CyclePassed(c) == c.ok
CycleFailed(c) == ~c.ok
Increasing(gens) == \A i, j \in DOMAIN gens : i < j => gens[i] < gens[j]
EvGens(ps) == [i \in DOMAIN ps |-> ps[i].gen]

\* C11: the passed list and the failed list are each in selection order
\* and together hold every selected occurrence whose cycle completed
\* exactly once: passed is the selection restricted to the occurrences
\* whose Test passed, failed the selection restricted to the others.
C11_ListsPartitionSelection ==
    (cmd = "test" /\ OutcomesRecorded > 0) =>
        /\ OutcomesRecorded <= Len(TestEvs)
        /\ OutcomesRecorded <= Len(packs)
        /\ EvNames(passedPkgs) = EvNames(SelectSeq(RecordedCycles, CyclePassed))
        /\ EvNames(failedPkgs) = EvNames(SelectSeq(RecordedCycles, CycleFailed))
        /\ Increasing(EvGens(passedPkgs))
        /\ Increasing(EvGens(failedPkgs))
        /\ Range(EvGens(passedPkgs)) \cap Range(EvGens(failedPkgs)) = {}
        /\ pc = "aggregate" => OutcomesRecorded = Len(packs)

C11_Witness ==
    /\ cmd = "test"
    /\ pc = "aggregate"
    /\ Len(failedPkgs) = 2
    /\ Len(passedPkgs) = 1
    /\ failedPkgs[1].name # failedPkgs[2].name
    /\ ~TestEvs[1].ok /\ TestEvs[2].ok

\* ----------------------------------------------------------------- C12
\* The NewBuilder call that made the Builder the call at k acts on.
MadeBy(k) ==
    {n \in Called({"NewBuilder"}) : n < k /\ trace[n].ok /\ trace[n].bid = trace[k].bid}

\* C12: every Builder receives at most one lifecycle call; the Builder of
\* a lifecycle call is the one constructed last before it, for the target
\* the call is about, and no Reset and no other lifecycle call lies
\* between its construction and its use.
C12_BuildersNotReused ==
    /\ \A k1, k2 \in Called(LifecycleOps) :
          trace[k1].bid = trace[k2].bid => k1 = k2
    /\ \A k \in Called(LifecycleOps) :
          /\ trace[k].bid \in 1..nbuilders
          /\ Cardinality(MadeBy(k)) = 1
          /\ \A n \in MadeBy(k) :
                /\ trace[n].name = IF trace[k].op = "Test" THEN TARGET_TEST_NAME
                                   ELSE trace[k].name
                /\ trace[n].tgen = trace[k].bgen
                /\ \A m \in (n + 1)..(k - 1) :
                      trace[m].op \notin LifecycleOps \cup {"Reset", "NewBuilder"}
    /\ Cardinality(Called(LifecycleOps)) <= nbuilders
    /\ Cardinality({n \in Called({"NewBuilder"}) : trace[n].ok}) = nbuilders

C12_Witness ==
    /\ cmd = "clean"
    /\ pc = "done"
    /\ exit = "ok"
    /\ Cardinality(Called({"Clean"})) = 3
    /\ nbuilders = 3
    /\ args[1] = args[3]

\* ----------------------------------------------------------------- C13
CyclePattern == <<"Reset", "ResolveTarget", "NewBuilder", "ResolvePackage", "Test">>
IsCycleOp(e) == e.op \in Range(CyclePattern)
\* The calls of the run that a test cycle is made of, in call order.
CycleCalls == SelectSeq(trace, IsCycleOp)
FirstResetIn(calls) ==
    LET resets == {i \in DOMAIN calls : calls[i].op = "Reset"}
    IN IF resets = {} THEN Len(calls) + 1
       ELSE CHOOSE i \in resets : \A j \in resets : i <= j
FirstReset == FirstResetIn(CycleCalls)
NumResets == Cardinality(Called({"Reset"}))

\* The calls from the first Reset on repeat the pattern, cycle by cycle.
InCycleOrder(calls, first) ==
    \A i \in DOMAIN calls :
        IF i < first
        THEN calls[i].op = "ResolvePackage"
        ELSE LET step == ((i - first) % 5) + 1
                 cycle == ((i - first) \div 5) + 1
                 e == calls[i]
             IN /\ e.op = CyclePattern[step]
                /\ cycle <= Len(packs)
                /\ e.name = IF step \in {2, 3} THEN "unittest"
                            ELSE packs[cycle].name
                /\ (step # 5 /\ ~e.ok) => i = Len(calls)
                /\ step = 1 => e.cur = cycle
                /\ step # 1 => e.cur = cycle + 1

\* C13: from the first Reset on, the calls of a test run repeat the order
\* Reset, ResolveTarget("unittest"), NewBuilder, ResolvePackage of the
\* selected name, Test of it; the k-th Reset belongs to the k-th selected
\* package and is made only when k-1 outcomes are recorded; the Resets
\* are as many as the cycles started.  The order is read where a cycle or
\* the run has ended: the trace only grows, so the trace of a state inside
\* a cycle is a prefix of one read there.
C13_CycleOrder ==
    (cmd = "test" /\ pc \notin {"start", "checkArgs", "argLoop", "select"}) =>
        LET resets == NumResets
            recorded == OutcomesRecorded
        IN
        /\ pc \in {"loopHead", "aggregate", "done"} =>
             InCycleOrder(CycleCalls, FirstReset)
        /\ resets <= recorded + 1
        /\ pc = "loopHead" => (resets = idx - 1 /\ recorded = idx - 1)
        /\ pc \in {"resolveTest", "testNewBuilder", "reResolve", "test", "classify"}
             => (resets = idx /\ recorded = idx - 1)
        /\ pc = "aggregate" => (resets = Len(packs) /\ recorded = Len(packs))

C13_Witness ==
    /\ cmd = "test"
    /\ pc = "aggregate"
    /\ NumResets = 3
    /\ Len(CycleCalls) = FirstReset + 14
    /\ FirstReset = 4

\* ----------------------------------------------------------------- C14
\* The failed calls inside a test cycle: after a Reset, a ResolveTarget,
\* NewBuilder or ResolvePackage that did not succeed.
CycleFatals ==
    {k \in Called({"ResolveTarget", "NewBuilder", "ResolvePackage"}) :
        /\ ~trace[k].ok
        /\ \E r \in Called({"Reset"}) : r < k}
FatalMessage(op) ==
    CASE op = "ResolveTarget" -> "Can't find unit test target"
      [] op = "NewBuilder" -> "builder error"
      [] op = "ResolvePackage" -> "Failed to resolve package"
      [] OTHER -> ""

\* C14: when the "unittest" target is not found, NewBuilder fails or the
\* package is not re-resolved inside a test cycle, the run ends there with
\* a non-zero exit: no Test for that package, no later Reset or cycle,
\* and no outcome recorded for it.
C14_CycleFatalEndsBatch ==
    (cmd = "test") =>
        \A k \in CycleFatals :
            /\ pc = "done"
            /\ exit = "fatal"
            /\ reason = FatalMessage(trace[k].op)
            /\ \A m \in (k + 1)..Len(trace) : trace[m].op = "Name"
            /\ Len(TestEvs) = NumResets - 1
            /\ OutcomesRecorded = NumResets - 1
            /\ ~report.shown

C14_Witness ==
    /\ cmd = "test"
    /\ pc = "done"
    /\ reason = "Failed to resolve package"
    /\ Len(packs) = 3
    /\ NumResets = 2
    /\ Len(passedPkgs) = 1

\* ----------------------------------------------------------------- C15
\* How a finished test run ended.
AllPassedReport == exit = "ok" /\ report.shown /\ ~report.withFailed
FailureReport == exit = "fatal" /\ report.shown /\ report.withFailed
FatalError == exit \in {"fatal", "panic"} /\ ~report.shown

\* C15: every external call returning, a run of the test command ends,
\* with the all-passed report, the failure report or a fatal end of the
\* process; and when it ends with a report every selected package has had
\* exactly one Reset, one Test and one recorded outcome.
C15_TestRunEnds ==
    /\ (cmd = "test") ~> (cmd = "test" /\ pc = "done")
    /\ [](  (cmd = "test" /\ pc = "done") =>
              /\ AllPassedReport \/ FailureReport \/ FatalError
              /\ ~FatalError =>
                   /\ NumResets = Len(packs)
                   /\ Len(TestEvs) = Len(packs)
                   /\ OutcomesRecorded = Len(packs)
                   /\ EvNames(TestEvs) = EvNames(packs))

C15_Witness ==
    /\ cmd = "test"
    /\ pc = "done"
    /\ FailureReport
    /\ Len(packs) = 3
    /\ Len(passedPkgs) = 2

\* ----------------------------------------------------------------- C16
IsOp(op, e) == e.op = op
IsResolveTarget(e) == IsOp("ResolveTarget", e)
IsNewBuilder(e) == IsOp("NewBuilder", e)
IsClean(e) == IsOp("Clean", e)
IsPrefix(s, q) == Len(s) <= Len(q) /\ \A i \in DOMAIN s : s[i] = q[i]

\* C16: clean without "all" resolves every argument before it cleans
\* anything; with an invalid name among them it ends fatally having made
\* no Builder and no Clean call; otherwise it constructs a Builder and
\* calls Clean once per argument, in argument order, stopping at the
\* first error; it never removes the output root.
C16_CleanTargetsInOrder ==
    (cmd = "clean" /\ TARGET_KEYWORD_ALL \notin Range(args)) =>
        LET resolved == EvNames(SelectSeq(trace, IsResolveTarget))
            built == SelectSeq(trace, IsNewBuilder)
            cleaned == SelectSeq(trace, IsClean)
        IN /\ Called({"RemoveAll"}) = {}
           /\ binRoot = "present"
           /\ IsPrefix(resolved, args)
           /\ IsPrefix(EvNames(built), args)
           /\ IsPrefix(EvNames(cleaned), args)
           /\ Len(built) - 1 <= Len(cleaned) /\ Len(cleaned) <= Len(built)
           /\ \A i \in DOMAIN built : ~built[i].ok => i = Len(built)
           /\ \A i \in DOMAIN cleaned :
                /\ built[i].ok /\ cleaned[i].bid = built[i].bid
                /\ ~cleaned[i].ok => i = Len(cleaned)
           /\ \A r \in Called({"ResolveTarget"}), n \in Called({"NewBuilder", "Clean"}) :
                r < n
           /\ Len(built) > 0 => resolved = args
           /\ ~(Range(args) \subseteq targets) =>
                /\ Len(built) = 0 /\ Len(cleaned) = 0 /\ nbuilders = 0
                /\ (pc = "done" /\ Succeeded("Initialize")) =>
                     (exit = "fatal" /\ reason = "invalid target name")
           /\ (pc = "done" /\ exit = "ok") =>
                /\ EvNames(cleaned) = args
                /\ \A i \in DOMAIN cleaned : cleaned[i].ok
           /\ (pc = "done" /\ exit = "fatal" /\ Len(built) > 0) =>
                (~built[Len(built)].ok \/ ~cleaned[Len(cleaned)].ok)

C16_Witness ==
    /\ cmd = "clean"
    /\ pc = "done"
    /\ exit = "fatal"
    /\ reason = "action error"
    /\ Len(args) = 3
    /\ Cardinality(Called({"Clean"})) = 2
    /\ TARGET_KEYWORD_ALL \notin Range(args)

\* ----------------------------------------------------------------- C17
FirstArg == IF Len(args) >= 1 THEN {args[1]} ELSE {}

\* The end of a build, load, debug or size run as the first argument and
\* the answers of the collaborators decide it.
ExpectedEnd ==
    IF ~Succeeded("Initialize") THEN <<"fatal", "initialize error">>
    ELSE IF Len(args) < 1 THEN <<"fatal", "usage">>
    ELSE IF args[1] \notin targets THEN <<"fatal", "invalid target name">>
    ELSE IF ~Succeeded("NewBuilder") THEN <<"fatal", "builder error">>
    ELSE IF \E k \in Called(LifecycleOps) : ~trace[k].ok THEN <<"fatal", "action error">>
    ELSE <<"ok", "">>

commandVars == <<cmd, args, targets, pkgs, testable, pc, projState, gen, idx,
                 cleanAll, testAll, tlist, packs, t, b, pack, err, passedPkgs,
                 failedPkgs, nbuilders, binRoot, exit, reason, report, trace>>

\* One history entry of the transport: the method, the flag on entry and
\* on return, and whether the method returned nil.
UdpCall(op, ok) == [op |-> op, before |-> started, after |-> started', ok |-> ok]

\* The byte slices handed to Tx.
TxInputs == {<<>>, <<0>>, <<255, 1>>}

Start_NoGuard ==
    /\ Len(ulog) < MaxCalls
    /\ started' = TRUE
    /\ ulog' = Append(ulog, UdpCall("Start", TRUE))
    /\ UNCHANGED commandVars

\* func (ux *UdpXport) Start() error
Start ==
    /\ Len(ulog) < MaxCalls
    /\ IF started
       THEN /\ UNCHANGED started
            /\ ulog' = Append(ulog, UdpCall("Start", FALSE))
       ELSE /\ started' = TRUE
            /\ ulog' = Append(ulog, UdpCall("Start", TRUE))
    /\ UNCHANGED commandVars

\* func (ux *UdpXport) Stop() error
Stop ==
    /\ Len(ulog) < MaxCalls
    /\ IF ~started
       THEN /\ UNCHANGED started
            /\ ulog' = Append(ulog, UdpCall("Stop", FALSE))
       ELSE /\ started' = FALSE
            /\ ulog' = Append(ulog, UdpCall("Stop", TRUE))
    /\ UNCHANGED commandVars

\* func (ux *UdpXport) Tx(bytes []byte) error
Tx ==
    /\ Len(ulog) < MaxCalls
    /\ \E bytes \in TxInputs :
        /\ UNCHANGED started
        /\ ulog' = Append(ulog, UdpCall("Tx", FALSE))
    /\ UNCHANGED commandVars

UdpInit ==
    /\ cmd = "build"
    /\ args = <<>>
    /\ targets = {}
    /\ pkgs = {}
    /\ testable = {}
    /\ CommandStart
    /\ NewUdpXport

UdpNext ==
    \/ Start
    \/ Stop
    \/ Tx

UdpSpec == UdpInit /\ [][UdpNext]_vars

\* ----------------------------------------------------------------- C18
IsSuccess(e) == e.ok
Odd(i) == i % 2 = 1

\* C18: Start returns nil exactly when the transport is not started and
\* then sets the flag; Stop returns nil exactly when it is started and
\* then clears the flag; a call that returns an error leaves the flag as
\* it was; Tx always returns an error and never changes the flag; so the
\* successful calls alternate Start, Stop, Start, ...
C18_StartStopAlternate ==
    /\ \A i \in DOMAIN ulog :
          LET e == ulog[i] IN
          /\ e.before = IF i = 1 THEN FALSE ELSE ulog[i - 1].after
          /\ e.op = "Start" => (e.ok <=> ~e.before) /\ (e.ok => e.after)
          /\ e.op = "Stop" => (e.ok <=> e.before) /\ (e.ok => ~e.after)
          /\ e.op = "Tx" => ~e.ok
          /\ ~e.ok => e.after = e.before
    /\ started = IF ulog = <<>> THEN FALSE ELSE ulog[Len(ulog)].after
    /\ LET wins == SelectSeq(ulog, IsSuccess)
       IN \A i \in DOMAIN wins :
             wins[i].op = IF Odd(i) THEN "Start" ELSE "Stop"

C18_Witness ==
    /\ Len(ulog) = 5
    /\ ulog[1].op = "Stop" /\ ~ulog[1].ok
    /\ ulog[2].op = "Start" /\ ulog[2].ok
    /\ ulog[3].op = "Start" /\ ~ulog[3].ok
    /\ ulog[4].op = "Tx" /\ ulog[4].before /\ ~started
    /\ ulog[5].op = "Stop" /\ ulog[5].ok

Next ==
    \/ testRunCmd
    \/ cleanRunCmd
    \/ buildRunCmd
    \/ loadRunCmd
    \/ debugRunCmd
    \/ sizeRunCmd

Spec == Init /\ [][Next]_vars

\* The command functions are sequential code: a step that can be taken is
\* taken, every call on a collaborator returning.
FairSpec == Init /\ [][Next]_vars /\ WF_vars(Next)

====
